---- MODULE Spec2Model ----
(***************************************************************************)
(* Model of OptionsPriceCalculator.py: the American binomial lattice       *)
(* pricer binomial_tree and the finite-difference estimator                *)
(* calculate_greeks.                                                       *)
(*                                                                         *)
(* Numbers.  Python floats are modelled by exact rationals <<num, den>>    *)
(* in lowest terms with den > 0, so +, -, *, / and max are the real-number *)
(* operations.  The two library functions math.sqrt and math.exp are       *)
(* evaluated to a fixed precision of 1/Prec (they are rounded, as the      *)
(* floating-point library rounds them) in the direction that keeps what    *)
(* holds of the doubles on the modelled inputs: sqrt(x) > 0 for x > 0,     *)
(* exp(x) > 1 for x > 0, exp(x) < 1 for x < 0, exp(0) = 1.                 *)
(* Python exceptions are outcomes [ok |-> FALSE, err |-> name].            *)
(***************************************************************************)
EXTENDS Integers, Sequences, FiniteSets, TLC

(* ---------------------------------------------------------------------- *)
(* Rational arithmetic                                                     *)
(* ---------------------------------------------------------------------- *)
Abs(x) == IF x < 0 THEN -x ELSE x

RECURSIVE GCD(_, _)
GCD(a, b) == IF b = 0 THEN a ELSE GCD(b, a % b)

Norm(a, b) ==
    LET g == GCD(Abs(a), Abs(b))
        s == IF b < 0 THEN -1 ELSE 1
    IN  <<(s * a) \div g, (s * b) \div g>>

Q(a, b) == Norm(a, b)
I(a) == <<a, 1>>

RNeg(x) == <<-x[1], x[2]>>

RAdd(x, y) ==
    LET g == GCD(x[2], y[2])
    IN  Norm(x[1] * (y[2] \div g) + y[1] * (x[2] \div g), (x[2] \div g) * y[2])

RSub(x, y) == RAdd(x, RNeg(y))

RMul(x, y) ==
    LET g1 == GCD(Abs(x[1]), y[2])
        g2 == GCD(Abs(y[1]), x[2])
    IN  Norm((x[1] \div g1) * (y[1] \div g2), (x[2] \div g2) * (y[2] \div g1))

RInv(x) == Norm(x[2], x[1])

RDiv(x, y) == RMul(x, RInv(y))

\* a/b < c/d for b, d > 0, by the continued-fraction expansions (no products)
RECURSIVE FracLt(_, _, _, _)
FracLt(a, b, c, d) ==
    LET qa == a \div b
        qc == c \div d
        ra == a - qa * b
        rc == c - qc * d
    IN  IF qa # qc THEN qa < qc
        ELSE IF rc = 0 THEN FALSE
        ELSE IF ra = 0 THEN TRUE
        ELSE FracLt(d, rc, b, ra)

RLt(x, y) == FracLt(x[1], x[2], y[1], y[2])

RLe(x, y) == ~RLt(y, x)

RIsZero(x) == x[1] = 0

\* Python's max(a, b): b if b > a, else a
RMax(a, b) == IF RLt(a, b) THEN b ELSE a

RECURSIVE RPow(_, _)
RPow(x, k) == IF k = 0 THEN I(1) ELSE RMul(x, RPow(x, k - 1))

(* ---------------------------------------------------------------------- *)
(* math.sqrt and math.exp                                                  *)
(* ---------------------------------------------------------------------- *)
\* results of the two library functions are multiples of 1/Prec
Prec == 4

Ceil(x) == -((-x[1]) \div x[2])
Floor(x) == x[1] \div x[2]

\* math.sqrt(x), x >= 0: the square root rounded up to a multiple of 1/Prec
\* (the caller raises ValueError for x < 0)
Sqrt(x) ==
    LET top == Prec * (x[1] \div x[2] + 1)
        k == CHOOSE m \in 0..top :
                /\ m * m * x[2] >= x[1] * Prec * Prec
                /\ \A l \in 0..(m - 1) : l * l * x[2] < x[1] * Prec * Prec
    IN  Q(k, Prec)

\* math.exp(x) for |x| < 2: the rational approximant (2 + x) / (2 - x),
\* rounded away from 1 to a multiple of 1/Prec
Exp(x) ==
    LET pade == RDiv(RAdd(I(2), x), RSub(I(2), x))
    IN  IF x[1] = 0 THEN I(1)
        ELSE IF x[1] > 0 THEN Q(Ceil(RMul(pade, I(Prec))), Prec)
        ELSE Q(Floor(RMul(pade, I(Prec))), Prec)

(* ---------------------------------------------------------------------- *)
(* binomial_tree, lines 8-32                                              *)
(* ---------------------------------------------------------------------- *)
Ok(v) == [ok |-> TRUE, val |-> v]
Raise(e) == [ok |-> FALSE, err |-> e]

\* a Python list, indexed from 0
At(l, idx) == l[idx + 1]
Put(l, idx, v) == [l EXCEPT ![idx + 1] = v]

\* lines 9-12: dt, u, d, p, or the exception the four lines raise
Params(a) ==
    IF a.n = 0 THEN Raise("ZeroDivisionError")
    ELSE LET dt_ == RDiv(a.T, I(a.n))
         IN  IF RLt(dt_, I(0)) THEN Raise("ValueError")
             ELSE LET u_ == Exp(RMul(a.sigma, Sqrt(dt_)))
                      d_ == RDiv(I(1), u_)
                  IN  IF RIsZero(RSub(u_, d_)) THEN Raise("ZeroDivisionError")
                      ELSE Ok([dt |-> dt_, u |-> u_, d |-> d_,
                               p |-> RDiv(RSub(Exp(RMul(a.r, dt_)), d_), RSub(u_, d_))])

\* lines 15 and 26: the stock price of node (i, j)
StockPrice(a, l, i_, j_) == RMul(RMul(a.S, RPow(l.u, j_)), RPow(l.d, i_ - j_))

\* faulty variant of Exercise: the two variants exchanged
ExerciseSwapped(a, stock_price) ==
    IF a.option_type = "call" THEN RSub(a.K, stock_price) ELSE RSub(stock_price, a.K)

\* line 29: the early-exercise value at a stock price
Exercise(a, stock_price) ==
    IF a.option_type = "call" THEN RSub(stock_price, a.K) ELSE RSub(a.K, stock_price)

\* faulty variant of Payoff: the terminal payoff without its floor at 0
PayoffNoFloor(a, price) == Exercise(a, price)

\* lines 18-21: the payoff at expiration
Payoff(a, price) ==
    IF a.option_type = "call" THEN RMax(RSub(price, a.K), I(0))
    ELSE RMax(RSub(a.K, price), I(0))

\* lines 15-21: the terminal row, n + 1 values (empty when n + 1 <= 0)
Terminal(a, l) ==
    [k \in 1..(a.n + 1) |-> Payoff(a, StockPrice(a, l, a.n, k - 1))]

\* faulty variant of Continuation: the two children taken in the wrong order
ContinuationSwapped(a, l, ov, j_) ==
    RMul(Exp(RMul(RNeg(a.r), l.dt)),
         RAdd(RMul(l.p, At(ov, j_)), RMul(RSub(I(1), l.p), At(ov, j_ + 1))))

\* line 28: the discounted expectation over the two children
Continuation(a, l, ov, j_) ==
    RMul(Exp(RMul(RNeg(a.r), l.dt)),
         RAdd(RMul(l.p, At(ov, j_ + 1)), RMul(RSub(I(1), l.p), At(ov, j_))))

\* faulty variant of NodeValue: the discounted expectation alone, no early exercise
NodeValueEuropean(a, l, ov, i_, j_) == Continuation(a, l, ov, j_)

\* lines 26-30: the value written to option_values[j]
NodeValue(a, l, ov, i_, j_) ==
    RMax(Continuation(a, l, ov, j_), Exercise(a, StockPrice(a, l, i_, j_)))

\* faulty variant of LastJ: range(i + 2)
LastJOneMore(i_) == i_ + 1

\* line 25: the last j of range(i + 1)
LastJ(i_) == i_

\* lines 24-30 as a function: the row after the pass from node (i, j) on;
\* IndexError when option_values[j + 1] is out of range
RECURSIVE Backward(_, _, _, _, _)
Backward(a, l, ov, i_, j_) ==
    IF i_ < 0 THEN Ok(ov)
    ELSE IF j_ + 1 >= Len(ov) THEN Raise("IndexError")
    ELSE LET ov2 == Put(ov, j_, NodeValue(a, l, ov, i_, j_))
         IN  IF j_ < LastJ(i_) THEN Backward(a, l, ov2, i_, j_ + 1)
             ELSE Backward(a, l, ov2, i_ - 1, 0)

\* binomial_tree(S, K, T, r, sigma, n, option_type): the price or the exception
binomial_tree(a) ==
    LET par == Params(a)
    IN  IF ~par.ok THEN par
        ELSE LET row == Backward(a, par.val, Terminal(a, par.val), a.n - 1, 0)
             IN  IF ~row.ok THEN row
                 ELSE IF Len(row.val) = 0 THEN Raise("IndexError")
                 ELSE Ok(At(row.val, 0))

Args(S_, K_, T_, r_, sigma_, n_, ot) ==
    [S |-> S_, K |-> K_, T |-> T_, r |-> r_, sigma |-> sigma_, n |-> n_, option_type |-> ot]

(* ---------------------------------------------------------------------- *)
(* calculate_greeks, lines 35-67                                          *)
(* ---------------------------------------------------------------------- *)
\* line 36
epsilon == Q(1, 100)
\* line 56: dt = 1/365
OneDay == Q(1, 365)

\* lines 39-40
S_up(a) == RMul(a.S, Q(101, 100))
S_down(a) == RMul(a.S, Q(99, 100))

\* faulty variant of DeltaCalls: a forward difference, the second price at S itself
DeltaCallsForward(a) == << [a EXCEPT !.S = S_up(a)], a >>

\* the arguments of the pricer calls, in the order the lines make them
\* lines 41-42
DeltaCalls(a) == << [a EXCEPT !.S = S_up(a)], [a EXCEPT !.S = S_down(a)] >>
\* faulty variant of GammaCalls: the two prices of delta computed again
GammaCallsRecompute(a) ==
    << [a EXCEPT !.S = RMul(S_up(a), Q(101, 100))],
       [a EXCEPT !.S = RMul(S_down(a), Q(99, 100))],
       [a EXCEPT !.S = S_up(a)], [a EXCEPT !.S = S_down(a)] >>

\* lines 46-47
GammaCalls(a) ==
    << [a EXCEPT !.S = RMul(S_up(a), Q(101, 100))],
       [a EXCEPT !.S = RMul(S_down(a), Q(99, 100))] >>
\* lines 51-52
VegaCalls(a) ==
    << [a EXCEPT !.sigma = RAdd(a.sigma, epsilon)],
       [a EXCEPT !.sigma = RSub(a.sigma, epsilon)] >>
\* faulty variant of ThetaCalls: expiry moved by half a day
ThetaCallsHalfDay(a) == << a, [a EXCEPT !.T = RSub(a.T, Q(1, 730))] >>

\* lines 57-58
ThetaCalls(a) == << a, [a EXCEPT !.T = RSub(a.T, OneDay)] >>
\* lines 63-64
RhoCalls(a) ==
    << [a EXCEPT !.r = RAdd(a.r, epsilon)],
       [a EXCEPT !.r = RSub(a.r, epsilon)] >>

\* a / b, or ZeroDivisionError
Divide(x, y) == IF RIsZero(y) THEN Raise("ZeroDivisionError") ELSE Ok(RDiv(x, y))

\* line 43
DeltaOf(a, vup, vdown) == Divide(RSub(vup, vdown), RSub(S_up(a), S_down(a)))

\* lines 46-48, from the two new prices and the two of delta
GammaOf(a, vupup, vdowndown, vup, vdown) ==
    LET delta_up == Divide(RSub(vupup, vup), RSub(RMul(S_up(a), Q(101, 100)), S_up(a)))
        delta_down == Divide(RSub(vdown, vdowndown), RSub(S_down(a), RMul(S_down(a), Q(99, 100))))
    IN  IF ~delta_up.ok THEN delta_up
        ELSE IF ~delta_down.ok THEN delta_down
        ELSE Divide(RSub(delta_up.val, delta_down.val), RSub(S_up(a), S_down(a)))

\* lines 53 and 65
BumpOf(vplus, vminus) == Ok(RDiv(RDiv(RSub(vplus, vminus), RMul(I(2), epsilon)), I(100)))

\* faulty variant of ThetaOf: line 60 left out
ThetaOfYearly(v_current, v_t_down) == Ok(RDiv(RSub(v_t_down, v_current), OneDay))

\* lines 59-60
ThetaOf(v_current, v_t_down) == Ok(RDiv(RDiv(RSub(v_t_down, v_current), OneDay), I(365)))

\* the pricer calls a Greek makes, in order
CallsOf(name, a) ==
    CASE name = "delta" -> DeltaCalls(a)
      [] name = "gamma" -> GammaCalls(a)
      [] name = "vega" -> VegaCalls(a)
      [] name = "theta" -> ThetaCalls(a)
      [] name = "rho" -> RhoCalls(a)

(* ---------------------------------------------------------------------- *)
(* Inputs                                                                  *)
(* ---------------------------------------------------------------------- *)
\* largest step count n of a pricer run
MaxN == 3
OptionTypes == {"call", "put"}

SpotValues == {-1, 0, 1, 3, 4}

\* the pricer is run on valid and on invalid parameters
PricerArgs ==
    { Args(I(s), I(k), I(t), rr, sg, nn, ot) :
        s \in SpotValues, k \in {-1, 0, 2}, t \in {-1, 0, 1},
        rr \in {Q(-1, 4), I(0), Q(1, 4), I(1)},
        sg \in {Q(-1, 2), I(0), Q(1, 2), I(1)},
        nn \in (-1)..MaxN, ot \in OptionTypes }

\* calculate_greeks is run on parameters the form of lines 89-98 allows
\* (K, r, sigma >= 0, at least one day to expiration), on half a day to
\* expiration and on a spot of 0
GreeksArgs ==
    { Args(I(s), I(2), t, rr, sg, nn, ot) :
        s \in {0, 1, 3},
        t \in {Q(1, 730), Q(1, 365), I(1), Q(366, 365)},
        rr \in {I(0), Q(2, 5)},
        sg \in {I(0), Q(1, 100), Q(1, 2)},
        nn \in {1, 2}, ot \in OptionTypes }

(* ---------------------------------------------------------------------- *)
(* State                                                                   *)
(* ---------------------------------------------------------------------- *)
VARIABLES
    args,           \* the parameters of the running binomial_tree call
    pc,             \* its position: "params", "terminal", "loop", "return", "done", "error"
    loc,            \* its locals dt, u, d, p (lines 9-12)
    option_values,  \* the working row (lines 19/21, 27)
    i, j,           \* the loop variables (lines 24, 25)
    result,         \* the returned price (line 32)
    err,            \* the exception raised, "" for none
    updates,        \* number of executions of the assignment at line 27
    gargs,          \* the parameters of the running calculate_greeks call
    gpc,            \* its position: "delta", "gamma", "vega", "theta", "rho", "return", "done"
    V_up, V_down,   \* the two prices of lines 41-42
    greeks,         \* delta, gamma, vega, theta, rho as far as computed
    gresult,        \* the returned tuple (line 67)
    prices,         \* the prices the pricer calls of the current Greek have returned
    gerr,           \* the exception that ended the call at step gpc, "" for none
    calls           \* the pricer calls made so far: the Greek and the arguments

pvars == <<args, pc, loc, option_values, i, j, result, err, updates>>
gvars == <<gargs, gpc, V_up, V_down, greeks, gresult, prices, gerr, calls>>
vars == <<pvars, gvars>>

NoLoc == [dt |-> I(0), u |-> I(0), d |-> I(0), p |-> I(0)]
NoArgs == Args(I(0), I(0), I(0), I(0), I(0), 0, "call")
GreekNames == {"delta", "gamma", "vega", "theta", "rho"}

PricerIdle ==
    /\ args = NoArgs
    /\ pc = "idle"
    /\ loc = NoLoc
    /\ option_values = <<>>
    /\ i = 0 /\ j = 0
    /\ result = I(0)
    /\ err = ""
    /\ updates = 0

GreeksIdle ==
    /\ gargs = NoArgs
    /\ gpc = "idle"
    /\ V_up = I(0) /\ V_down = I(0)
    /\ greeks = [g \in GreekNames |-> I(0)]
    /\ gresult = <<>>
    /\ prices = <<>>
    /\ gerr = ""
    /\ calls = <<>>

(* ---------------------------------------------------------------------- *)
(* A run of binomial_tree, step by step                                    *)
(* ---------------------------------------------------------------------- *)
Init ==
    /\ args \in PricerArgs
    /\ pc = "params"
    /\ loc = NoLoc
    /\ option_values = <<>>
    /\ i = 0 /\ j = 0
    /\ result = I(0)
    /\ err = ""
    /\ updates = 0
    /\ GreeksIdle

\* lines 9-12
ComputeParams ==
    /\ pc = "params"
    /\ LET par == Params(args)
       IN  IF par.ok
           THEN /\ loc' = par.val
                /\ pc' = "terminal"
                /\ err' = err
           ELSE /\ loc' = loc
                /\ pc' = "error"
                /\ err' = par.err
    /\ UNCHANGED <<args, option_values, i, j, result, updates, gvars>>

\* lines 15-21, and the entry into the loops of lines 24-25
ComputeTerminal ==
    /\ pc = "terminal"
    /\ option_values' = Terminal(args, loc)
    /\ IF args.n - 1 >= 0
       THEN pc' = "loop" /\ i' = args.n - 1 /\ j' = 0
       ELSE pc' = "return" /\ i' = i /\ j' = j
    /\ UNCHANGED <<args, loc, result, err, updates, gvars>>

\* lines 26-30 at node (i, j), and the step of the loops to the next node
UpdateNode ==
    /\ pc = "loop"
    /\ IF j + 1 >= Len(option_values)
       THEN /\ pc' = "error" /\ err' = "IndexError"
            /\ UNCHANGED <<option_values, i, j, updates>>
       ELSE /\ option_values' = Put(option_values, j, NodeValue(args, loc, option_values, i, j))
            /\ updates' = updates + 1
            /\ err' = err
            /\ IF j < LastJ(i) THEN pc' = "loop" /\ i' = i /\ j' = j + 1
               ELSE IF i > 0 THEN pc' = "loop" /\ i' = i - 1 /\ j' = 0
               ELSE pc' = "return" /\ i' = i /\ j' = j
    /\ UNCHANGED <<args, loc, result, gvars>>

\* line 32
Return ==
    /\ pc = "return"
    /\ IF Len(option_values) = 0
       THEN pc' = "error" /\ err' = "IndexError" /\ result' = result
       ELSE pc' = "done" /\ err' = err /\ result' = At(option_values, 0)
    /\ UNCHANGED <<args, loc, option_values, i, j, updates, gvars>>

Next == ComputeParams \/ ComputeTerminal \/ UpdateNode \/ Return

Spec == Init /\ [][Next]_vars

(* ---------------------------------------------------------------------- *)
(* A run of calculate_greeks: each of its pricer calls is a run of         *)
(* binomial_tree, and each Greek is computed from the prices of its calls  *)
(* ---------------------------------------------------------------------- *)
InitG ==
    /\ PricerIdle
    /\ gargs \in GreeksArgs
    /\ gpc = "delta"
    /\ V_up = I(0) /\ V_down = I(0)
    /\ greeks = [g \in GreekNames |-> I(0)]
    /\ gresult = <<>>
    /\ prices = <<>>
    /\ gerr = ""
    /\ calls = <<>>

\* the next binomial_tree(...) of the current Greek is entered
CallPricer ==
    /\ gpc \in GreekNames /\ gerr = "" /\ pc = "idle"
    /\ Len(prices) < Len(CallsOf(gpc, gargs))
    /\ args' = CallsOf(gpc, gargs)[Len(prices) + 1]
    /\ pc' = "params"
    /\ loc' = NoLoc /\ option_values' = <<>> /\ i' = 0 /\ j' = 0
    /\ result' = I(0) /\ err' = "" /\ updates' = 0
    /\ calls' = Append(calls, [greek |-> gpc, a |-> args'])
    /\ UNCHANGED <<gargs, gpc, V_up, V_down, greeks, gresult, prices, gerr>>

\* the call returns its price to calculate_greeks
PricerReturns ==
    /\ gpc \in GreekNames /\ pc = "done"
    /\ prices' = Append(prices, result)
    /\ pc' = "idle"
    /\ UNCHANGED <<args, loc, option_values, i, j, result, err, updates>>
    /\ UNCHANGED <<gargs, gpc, V_up, V_down, greeks, gresult, gerr, calls>>

\* the call raises: calculate_greeks has no handler and ends in the exception
PricerRaises ==
    /\ gpc \in GreekNames /\ pc = "error" /\ gerr = ""
    /\ gerr' = err
    /\ UNCHANGED <<gargs, gpc, V_up, V_down, greeks, gresult, prices, calls, pvars>>

\* the difference quotient val of Greek name, once all its prices are there;
\* the call ends at this step when a division raises
GreekStep(name, val, next) ==
    /\ gpc = name /\ gerr = "" /\ pc = "idle"
    /\ Len(prices) = Len(CallsOf(name, gargs))
    /\ IF val.ok
       THEN /\ greeks' = [greeks EXCEPT ![name] = val.val]
            /\ gpc' = next /\ gerr' = gerr /\ prices' = <<>>
       ELSE /\ gerr' = val.err
            /\ UNCHANGED <<greeks, gpc, prices>>
    /\ UNCHANGED <<gargs, gresult, calls, pvars>>

\* lines 41-43
Delta ==
    /\ GreekStep("delta", DeltaOf(gargs, prices[1], prices[2]), "gamma")
    /\ V_up' = prices[1] /\ V_down' = prices[2]

\* lines 46-48
Gamma ==
    /\ GreekStep("gamma", GammaOf(gargs, prices[1], prices[2], V_up, V_down), "vega")
    /\ UNCHANGED <<V_up, V_down>>

\* lines 51-53
Vega ==
    /\ GreekStep("vega", BumpOf(prices[1], prices[2]), "theta")
    /\ UNCHANGED <<V_up, V_down>>

\* lines 56-60
Theta ==
    /\ GreekStep("theta", ThetaOf(prices[1], prices[2]), "rho")
    /\ UNCHANGED <<V_up, V_down>>

\* lines 63-65
Rho ==
    /\ GreekStep("rho", BumpOf(prices[1], prices[2]), "return")
    /\ UNCHANGED <<V_up, V_down>>

\* line 67
ReturnGreeks ==
    /\ gpc = "return"
    /\ gpc' = "done"
    /\ gresult' = <<greeks["delta"], greeks["gamma"], greeks["vega"], greeks["theta"], greeks["rho"]>>
    /\ UNCHANGED <<gargs, V_up, V_down, greeks, prices, gerr, calls, pvars>>

NextG ==
    \/ CallPricer \/ ComputeParams \/ ComputeTerminal \/ UpdateNode \/ Return
    \/ PricerReturns \/ PricerRaises
    \/ Delta \/ Gamma \/ Vega \/ Theta \/ Rho \/ ReturnGreeks

SpecG == InitG /\ [][NextG]_vars

(* ---------------------------------------------------------------------- *)
(* Properties                                                              *)
(* ---------------------------------------------------------------------- *)
\* the stepped run and the function binomial_tree agree
RunIsFunction ==
    /\ pc = "done" => binomial_tree(args) = Ok(result)
    /\ pc = "error" => binomial_tree(args) = Raise(err)

Positive(x) == x[1] > 0
NonNegative(x) == x[1] >= 0

\* S >= 0, K >= 0, sigma > 0, T > 0, n >= 1
ValidArgs(a) ==
    /\ NonNegative(a.S) /\ NonNegative(a.K)
    /\ Positive(a.sigma) /\ Positive(a.T) /\ a.n >= 1

\* the risk-neutral probability of the run lies in [0, 1]
ProbInUnit == RLe(I(0), loc.p) /\ RLe(loc.p, I(1))

\* C1 as stated: on valid parameters, whatever the rate r, the returned
\* price is >= 0.
C1_NonNegativeAnyRate ==
    (pc = "done" /\ ValidArgs(args)) => RLe(I(0), result)

\* C1 amended: on valid parameters for which the risk-neutral probability p
\* lies in [0, 1], the returned price is >= 0.
C1_NonNegative ==
    (pc = "done" /\ ValidArgs(args) /\ ProbInUnit) => RLe(I(0), result)

\* an out-of-the-money option on a tree of depth >= 2 with p in [0, 1]
C1_Witness ==
    /\ pc = "done" /\ ValidArgs(args) /\ ProbInUnit
    /\ args.n >= 2 /\ Positive(result)
    /\ RLt(Exercise(args, args.S), I(0))

\* C2: the returned price is at least the immediate-exercise value at the
\* root, and every value of the row that the backward pass has written is at
\* least the exercise value at its node's stock price.
C2_ExerciseFloor ==
    /\ pc = "done" => RLe(Exercise(args, args.S), result)
    /\ pc = "loop" =>
          /\ \A jj \in 0..(j - 1) :
                RLe(Exercise(args, StockPrice(args, loc, i, jj)), At(option_values, jj))
          /\ i + 1 <= args.n - 1 =>
                \A jj \in j..(i + 1) :
                   RLe(Exercise(args, StockPrice(args, loc, i + 1, jj)), At(option_values, jj))
    /\ (pc = "return" /\ args.n >= 1) =>
          RLe(Exercise(args, StockPrice(args, loc, 0, 0)), At(option_values, 0))

\* early exercise binds at the root of a tree of depth >= 2
C2_Witness ==
    /\ pc = "done" /\ args.n >= 2 /\ ValidArgs(args)
    /\ result = Exercise(args, args.S) /\ Positive(result)

\* the number of pricer calls made for one Greek
CallsFor(name) == Cardinality({k \in 1..Len(calls) : calls[k].greek = name})

\* C3 as stated: a returned calculate_greeks has called the pricer exactly
\* 8 times: 2 for delta, 2 for gamma, 2 for vega, 1 for theta, 2 for rho.
C3_EightCalls ==
    gpc = "done" =>
        /\ Len(calls) = 8
        /\ CallsFor("delta") = 2 /\ CallsFor("gamma") = 2 /\ CallsFor("vega") = 2
        /\ CallsFor("theta") = 1 /\ CallsFor("rho") = 2

\* C3 amended: a returned calculate_greeks has called the pricer exactly 10
\* times, 2 for each of delta, gamma, vega, theta and rho (theta prices the
\* unperturbed parameters again), and no call of gamma repeats a call of delta.
C3_TenCalls ==
    gpc = "done" =>
        /\ Len(calls) = 10
        /\ \A g \in GreekNames : CallsFor(g) = 2
        /\ \A k, m \in 1..Len(calls) :
              (calls[k].greek = "gamma" /\ calls[m].greek = "delta") => calls[k].a # calls[m].a
        /\ calls[7] = [greek |-> "theta", a |-> gargs]

\* a call of calculate_greeks on a tree of depth 2 has returned
C3_Witness == gpc = "done" /\ Len(calls) = 10 /\ gargs.n >= 2

\* C4: binomial_tree raises on every parameter set with n < 1, T <= 0, S < 0,
\* K < 0 or sigma <= 0, and on no other.
C4_FailFast ==
    /\ pc = "done" => ValidArgs(args)
    /\ pc = "error" => ~ValidArgs(args)

\* the full two-dimensional recursion over the lattice of the run
RECURSIVE V(_, _)
V(ii, jj) ==
    IF ii = args.n THEN Payoff(args, StockPrice(args, loc, args.n, jj))
    ELSE RMax(RMul(Exp(RMul(RNeg(args.r), loc.dt)),
                   RAdd(RMul(loc.p, V(ii + 1, jj + 1)),
                        RMul(RSub(I(1), loc.p), V(ii + 1, jj)))),
              Exercise(args, StockPrice(args, loc, ii, jj)))

\* C5: when node (i, j) is computed, option_values[j + 1] and
\* option_values[j] hold the depth-(i+1) values of the two-dimensional
\* recursion, and the returned price is its value at node (0, 0).
C5_InPlaceIsRecursion ==
    /\ pc = "loop" =>
          /\ At(option_values, j + 1) = V(i + 1, j + 1)
          /\ At(option_values, j) = V(i + 1, j)
    /\ pc = "done" => result = V(0, 0)

\* a depth below the last one is reached with two different children
C5_Witness ==
    /\ pc = "loop" /\ i < args.n - 1 /\ j >= 1
    /\ At(option_values, j + 1) # At(option_values, j)
    /\ At(option_values, j - 1) # V(i + 1, j - 1)

\* C6: the delta of a returned calculate_greeks is
\* (price(1.01 S) - price(0.99 S)) / (0.02 S), both prices from binomial_tree
\* with K, T, r, sigma, n and the variant unchanged.
C6_Delta ==
    gpc = "done" =>
        LET up == binomial_tree([gargs EXCEPT !.S = RMul(Q(101, 100), gargs.S)])
            down == binomial_tree([gargs EXCEPT !.S = RMul(Q(99, 100), gargs.S)])
        IN  /\ up.ok /\ down.ok
            /\ gresult[1] = RDiv(RSub(up.val, down.val), RMul(Q(2, 100), gargs.S))

\* a returned delta other than 0
C6_Witness == gpc = "done" /\ ~RIsZero(gresult[1]) /\ gargs.n >= 2

\* C7: the theta of a returned calculate_greeks is the one-day price change
\* price(T - 1/365) - price(T), both prices from binomial_tree with S, K, r,
\* sigma, n and the variant unchanged.
C7_Theta ==
    gpc = "done" =>
        LET now == binomial_tree(gargs)
            later == binomial_tree([gargs EXCEPT !.T = RSub(gargs.T, Q(1, 365))])
        IN  /\ now.ok /\ later.ok
            /\ gresult[4] = RSub(later.val, now.val)
            /\ calls[7].a = gargs
            /\ calls[8] = [greek |-> "theta", a |-> [gargs EXCEPT !.T = RSub(gargs.T, Q(1, 365))]]

\* a returned theta other than 0
C7_Witness == gpc = "done" /\ ~RIsZero(gresult[4])

\* the prices of the run's parameters with another spot, where both return
PriceAt(s) == binomial_tree([args EXCEPT !.S = s])

Monotone ==
    \A s \in SpotValues :
        (RLe(I(s), args.S) /\ PriceAt(I(s)).ok) =>
            IF args.option_type = "call" THEN RLe(PriceAt(I(s)).val, result)
            ELSE RLe(result, PriceAt(I(s)).val)

\* C8 as stated: with K, T, r, sigma, n fixed and S1 <= S2, the call price at
\* S1 is <= the call price at S2 and the put price at S1 is >= that at S2.
C8_MonotoneInSpot == pc = "done" => Monotone

\* C8 amended: the same, for parameters whose risk-neutral probability p lies
\* in [0, 1].
C8_MonotoneInSpotUnitProb == (pc = "done" /\ ProbInUnit) => Monotone

\* two spots with different prices under a probability in [0, 1]
C8_Witness ==
    /\ pc = "done" /\ ProbInUnit /\ args.n >= 2
    /\ \E s \in SpotValues :
          /\ RLt(I(s), args.S) /\ PriceAt(I(s)).ok
          /\ PriceAt(I(s)).val # result

\* one day to expiry or less
AtMostOneDay(a) == RLe(a.T, Q(1, 365))

\* C9: on valid parameters the pricer returns a price, but with T <= 1/365
\* the theta call binomial_tree(T - 1/365) raises and with sigma = 0.01 the
\* vega call binomial_tree(sigma - 0.01) raises, and calculate_greeks ends in
\* that exception at the latest and returns no tuple.
C9_PerturbedCallRaises ==
    ValidArgs(gargs) =>
        /\ binomial_tree(gargs).ok
        /\ AtMostOneDay(gargs) =>
              /\ ~binomial_tree([gargs EXCEPT !.T = RSub(gargs.T, Q(1, 365))]).ok
              /\ gpc \notin {"rho", "return", "done"}
              /\ (gpc = "theta" /\ CallsFor("theta") = 2) =>
                    /\ pc \in {"params", "error"}
                    /\ pc = "error" => err \in {"ZeroDivisionError", "ValueError"}
        /\ gargs.sigma = Q(1, 100) =>
              /\ ~binomial_tree([gargs EXCEPT !.sigma = RSub(gargs.sigma, Q(1, 100))]).ok
              /\ gpc \notin {"theta", "rho", "return", "done"}
              /\ (gpc = "vega" /\ CallsFor("vega") = 2) =>
                    /\ pc \in {"params", "error"}
                    /\ pc = "error" => err = "ZeroDivisionError"

\* one day to expiry: delta, gamma and vega are computed, the second pricer
\* call of theta raises and ends calculate_greeks
C9_Witness ==
    /\ ValidArgs(gargs) /\ gargs.T = Q(1, 365)
    /\ gpc = "theta" /\ gerr = "ZeroDivisionError" /\ Len(calls) = 8
    /\ Len(prices) = 1 /\ prices[1] = binomial_tree(gargs).val

\* C10: for n >= 1 every index of option_values used in the backward pass
\* (j and j + 1 with 0 <= j <= i <= n - 1) lies in 0..n, the row keeps its
\* n + 1 elements, and the pass ends after n (n + 1) / 2 node updates with the
\* result at index 0.
C10_RowBounds ==
    args.n >= 1 =>
        /\ pc = "loop" =>
              /\ 0 <= j /\ j <= i /\ i <= args.n - 1
              /\ j + 1 <= args.n /\ j + 1 < Len(option_values)
        /\ pc \in {"loop", "return", "done"} => Len(option_values) = args.n + 1
        /\ err # "IndexError"
        /\ pc \in {"return", "done"} => 2 * updates = args.n * (args.n + 1)
        /\ pc = "done" => result = At(option_values, 0)

\* a pass over a tree of depth 3 has ended
C10_Witness == pc = "done" /\ args.n = 3 /\ updates = 6
====
